---- MODULE Spec2Model ----
(***************************************************************************)
(* Local-business-finder: the App component of src/unnamed/part_002 (the   *)
(* latest revision) and of src/my-lead-finder-appl/src/App.tsx (an earlier *)
(* revision), as one state machine.  The variable impl, fixed by Init,     *)
(* says which revision runs.  Every await, timer and callback of the       *)
(* source is a separate action; window.confirm blocks the only thread, so  *)
(* while a toggle waits for its answer no other action is enabled.         *)
(***************************************************************************)
EXTENDS Integers, Sequences, FiniteSets, TLC

\* ------------------------------------------------------------- bounds
\* pages the provider serves for one query
MaxPages == 2
\* submit events of the search form
MaxSubmits == 2
\* checkbox clicks
MaxToggles == 3
\* submit events and checkbox clicks together, in a session that is
\* followed from its start
MaxEvents == 3
\* candidates of a list whose pages are turned
MaxListLen == 61

\* ------------------------------------------------- program constants
\* setTimeout(() => pagination.nextPage(), 2000)
DelayMs == 2000
resultsPerPage == 20

\* ---------------------------------------------------------- the world
Impls == {"part_002", "App"}

\* what the user can type in the two form fields ("" is the empty field)
BusinessTypes == {"", "cafe"}
Locations == {"", "NYC"}

\* the places the provider knows; "none" is a result without place_id
PlaceIds == {"A", "B"}
ItemKinds == PlaceIds \cup {"none"}

\* the result lists the provider may hold for a query, in its order
Catalogues == { <<"A", "B">>, <<"B", "none">> }

NameOf(k) == CASE k = "A" -> "Alpha" [] k = "B" -> "Beta" [] OTHER -> "Anon"
AddressOf(k) == CASE k = "A" -> "1 A St" [] k = "B" -> "2 B St" [] OTHER -> ""
PhoneOf(k) == CASE k = "A" -> "555-A" [] k = "B" -> "555-B" [] OTHER -> ""
WebsiteOf(k) == CASE k = "A" -> "http://a" [] OTHER -> ""

\* a PlaceResult of the text search: no phone, no website ("" is undefined)
SummaryOf(k) ==
    [place_id |-> IF k = "none" THEN "" ELSE k,
     name |-> NameOf(k),
     formatted_address |-> AddressOf(k),
     formatted_phone_number |-> "",
     website |-> ""]

\* a PlaceResult of getDetails for the five requested fields
DetailsOf(k) ==
    [place_id |-> k,
     name |-> NameOf(k),
     formatted_address |-> AddressOf(k),
     formatted_phone_number |-> PhoneOf(k),
     website |-> WebsiteOf(k)]

IsPrefix(p, q) == Len(p) <= Len(q) /\ SubSeq(q, 1, Len(p)) = p

VARIABLES
    impl,           \* which revision of App runs
    google,         \* window.google: "absent" or "present"
    searchParams,   \* useState: the two form fields
    searchResults,  \* useState: the candidate list
    searchState,    \* useState: idle | loading | success | error
    currentPage,    \* useState: 1-based page number
    leads,          \* the Firestore collection "leads": a set of documents
    nextDocId,      \* the next server-assigned document id
    srch,           \* the invocations of handleSearch, by slot
    tog,            \* the invocations of handleCheckboxChange, by slot
    nSubmit,        \* submit events so far
    nToggle         \* checkbox clicks so far

vars == <<impl, google, searchParams, searchResults, searchState, currentPage,
          leads, nextDocId, srch, tog, nSubmit, nToggle>>

SearchSlots == 1 .. MaxSubmits
ToggleSlots == 1 .. MaxToggles

\* ------------------------------------------------- the initial store
\* ContactRecords persist across sessions: the store a session starts
\* with is empty or holds a record an earlier session wrote.
LeadDoc(id, k, bt, loc, ts) ==
    [id |-> id, apiId |-> k, name |-> NameOf(k), phone |-> PhoneOf(k),
     address |-> AddressOf(k),
     website |-> IF WebsiteOf(k) = "" THEN "N/A" ELSE WebsiteOf(k),
     contacted |-> TRUE, businessType |-> bt, location |-> loc, timestamp |-> ts]

InitialStores ==
    { {},
      {LeadDoc(1, "B", "cafe", "NYC", 0), LeadDoc(2, "A", "Cafe", "NYC", 0),
       LeadDoc(3, "A", "cafe", "LA", 0)} }

\* ------------------------------------------------------ idle records
NoPlace == [place_id |-> "", name |-> "", formatted_address |-> "",
            formatted_phone_number |-> "", website |-> ""]

IdleSearch ==
    [pc |-> "free", q |-> [businessType |-> "", location |-> ""],
     pager |-> "off", elapsed |-> 0, allResults |-> <<>>, statuses |-> <<>>,
     detailed |-> <<>>, detailStatus |-> <<>>, businesses |-> <<>>,
     outcome |-> "none"]

NoBusiness == [apiId |-> "", name |-> "", phone |-> "", address |-> "",
               website |-> "", contacted |-> FALSE]

IdleToggle ==
    [pc |-> "free", globalIndex |-> 0, originalResults |-> <<>>,
     targetBusiness |-> NoBusiness, isNowChecked |-> FALSE,
     q |-> [businessType |-> "", location |-> ""], clickNo |-> 0,
     answer |-> "", pending |-> {}, said |-> "", outcome |-> "none"]

Init ==
    /\ impl \in Impls
    /\ google = "absent"
    /\ searchParams = [businessType |-> "", location |-> ""]
    /\ searchResults = <<>>
    /\ searchState = "idle"
    /\ currentPage = 1
    /\ leads \in InitialStores
    /\ nextDocId = 4
    /\ srch = [s \in SearchSlots |-> IdleSearch]
    /\ tog = [t \in ToggleSlots |-> IdleToggle]
    /\ nSubmit = 0
    /\ nToggle = 0

\* ------------------------------------------------------------ helpers
\* window.confirm is open: the thread is blocked, no handler, timer or
\* callback runs until the user has answered.
Blocked == \E t \in ToggleSlots : tog[t].pc = "confirm"

SlotFree(s) == srch[s].pc = "free" /\ srch[s].pager = "off"
FreeSearchSlot == CHOOSE s \in SearchSlots :
    SlotFree(s) /\ \A r \in SearchSlots : SlotFree(r) => s <= r
FreeToggleSlot == CHOOSE t \in ToggleSlots :
    tog[t].pc = "free" /\ \A r \in ToggleSlots : tog[r].pc = "free" => t <= r

\* A handler that has ended leaves nothing behind but what it was asked
\* (q), the statuses it received and how it ended.
Ended(rec) ==
    IF rec.pc = "free" /\ rec.pager = "off"
    THEN [IdleSearch EXCEPT !.q = rec.q, !.statuses = rec.statuses,
                            !.outcome = rec.outcome]
    ELSE rec

Settled(rec) ==
    IF rec.pc = "free"
    THEN [IdleToggle EXCEPT !.globalIndex = rec.globalIndex,
                            !.isNowChecked = rec.isNowChecked,
                            !.said = rec.said, !.outcome = rec.outcome]
    ELSE IF rec.pc = "drain"
    THEN [rec EXCEPT !.originalResults = <<>>]
    ELSE rec

OrNA(v) == IF v = "" THEN "N/A" ELSE v

\* place => ({apiId: place.place_id!, name: place.name!, ...})
toBusiness(place) ==
    [apiId |-> place.place_id,
     name |-> place.name,
     phone |-> OrNA(place.formatted_phone_number),
     address |-> OrNA(place.formatted_address),
     website |-> OrNA(place.website),
     contacted |-> FALSE]

\* the results array of a page that holds the items c
resultsOf(c) == [i \in 1 .. Len(c) |-> SummaryOf(c[i])]

\* ----------------------------------------------------------- the form
\* onChange of the two inputs: setSearchParams({...searchParams, field})
setBusinessType(v) ==
    /\ ~Blocked
    /\ v # searchParams.businessType
    /\ searchParams' = [searchParams EXCEPT !.businessType = v]
    /\ UNCHANGED <<impl, google, searchResults, searchState, currentPage,
                   leads, nextDocId, srch, tog, nSubmit, nToggle>>

setLocation(v) ==
    /\ ~Blocked
    /\ v # searchParams.location
    /\ searchParams' = [searchParams EXCEPT !.location = v]
    /\ UNCHANGED <<impl, google, searchResults, searchState, currentPage,
                   leads, nextDocId, srch, tog, nSubmit, nToggle>>

\* ------------------------------------------------------- handleSearch
\* if (!searchParams.businessType || !searchParams.location) return;
RejectsQueryTypeOnly(p) == p.businessType = ""

RejectsQuery(p) == p.businessType = "" \/ p.location = ""

\* part_002: <button type="submit" disabled={searchState === 'loading'}>;
\* App.tsx has no disabled attribute.
SearchButtonNeverDisabled == FALSE

SearchButtonDisabled ==
    IF impl = "part_002" THEN searchState = "loading" ELSE FALSE

\* setSearchResults([]) at the start of a search is in part_002 only
ResultsOnSubmit == IF impl = "part_002" THEN <<>> ELSE searchResults

\* The submit handler up to its first suspension.  With window.google
\* present loadGoogleMapsSDK resolves at once and textSearch is issued in
\* the same turn; otherwise the script tag is appended and awaited.
handleSearch ==
    /\ ~Blocked
    /\ ~SearchButtonDisabled
    /\ nSubmit < MaxSubmits
    /\ nSubmit' = nSubmit + 1
    /\ IF RejectsQuery(searchParams)
       THEN UNCHANGED <<searchState, searchResults, currentPage, srch>>
       ELSE /\ searchState' = "loading"
            /\ searchResults' = ResultsOnSubmit
            /\ currentPage' = 1
            /\ srch' = [srch EXCEPT ![FreeSearchSlot] =
                   [IdleSearch EXCEPT
                      !.q = searchParams,
                      !.pc = IF google = "present" THEN "fetch" ELSE "sdk",
                      !.pager = IF google = "present" THEN "page" ELSE "off"]]
    /\ UNCHANGED <<impl, google, searchParams, leads, nextDocId, tog, nToggle>>

\* script.onload / script.onerror of loadGoogleMapsSDK, then the check
\* if (!window.google || !window.google.maps) of handleSearch.
\* "defines": the script ran and defined the global; "blank": onload with
\* the global still missing; "onerror": the load failed.
loadGoogleMapsSDKIgnoresFailure(s, how) ==
    /\ ~Blocked
    /\ srch[s].pc = "sdk"
    /\ google' = IF how = "defines" THEN "present" ELSE google
    /\ srch' = [srch EXCEPT ![s].pc = "fetch", ![s].pager = "page"]
    /\ UNCHANGED <<impl, searchParams, searchResults, searchState, currentPage, leads,
                   nextDocId, tog, nSubmit, nToggle>>

loadGoogleMapsSDK(s, how) ==
    /\ ~Blocked
    /\ srch[s].pc = "sdk"
    /\ google' = IF how = "defines" THEN "present" ELSE google
    /\ IF how # "onerror" /\ google' = "present"
       THEN /\ srch' = [srch EXCEPT ![s].pc = "fetch", ![s].pager = "page"]
            /\ UNCHANGED searchState
       ELSE /\ srch' = [srch EXCEPT ![s] =
                   Ended([@ EXCEPT !.pc = "free", !.outcome = "error"])]
            /\ searchState' = "error"
    /\ UNCHANGED <<impl, searchParams, searchResults, currentPage, leads,
                   nextDocId, tog, nSubmit, nToggle>>

\* ------------------------------------------------ the places provider
\* What the provider may answer to the request for the next page of slot
\* s: OK with at least one item, ZERO_RESULTS or a failure status; only
\* an OK page can offer a further page.
PageAnswers(s) ==
    LET got == srch[s].allResults
        last == Len(srch[s].statuses) + 1 >= MaxPages
        more(c) == {SubSeq(c, Len(got) + 1, n) : n \in Len(got) + 1 .. Len(c)}
        pages == UNION {more(c) : c \in {x \in Catalogues :
                            IsPrefix(got, resultsOf(x))}}
    IN  { [status |-> "OK", results |-> resultsOf(r), hasNextPage |-> h] :
            r \in pages, h \in {b \in BOOLEAN : b => ~last} }
        \cup { [status |-> st, results |-> <<>>, hasNextPage |-> FALSE] :
                 st \in {"ZERO_RESULTS", "UNKNOWN_ERROR"} }

\* if (status === OK && results) push; else if (status !== ZERO_RESULTS) reject
PageFails(status) == status # "OK" /\ status # "ZERO_RESULTS"

\* allResults.map((place) => new Promise(...)): an item without place_id
\* resolves to null at once, the others wait for their getDetails callback
detailPromises(all) ==
    [i \in 1 .. Len(all) |->
        IF all[i].place_id = ""
        THEN [tag |-> "null", place |-> NoPlace, nth |-> 0]
        ELSE [tag |-> "pending", place |-> all[i], nth |-> 0]]

AllSettled(det) == \A i \in 1 .. Len(det) : det[i].tag # "pending"

NotNull(d) == d.tag # "null"

\* detailedResults.filter(place => place !== null).map(toBusiness)
businessesOf(det) ==
    LET kept == SelectSeq(det, NotNull)
    IN  [i \in 1 .. Len(kept) |-> toBusiness(kept[i].place)]

\* The code of part_002 after await fetchAllResults(), up to the next
\* suspension: the record of slot s and the search state that result.
AfterFetchAll(cur) ==
    IF Len(cur.allResults) = 0
    THEN [rec |-> Ended([cur EXCEPT !.pc = "free", !.pager = "off",
                                    !.outcome = "success"]),
          state |-> "success"]
    ELSE LET det == detailPromises(cur.allResults)
         IN  IF AllSettled(det)
             THEN [rec |-> [cur EXCEPT !.pc = "store", !.pager = "off", !.detailed = det,
                                      !.detailStatus = [i \in 1 .. Len(det) |-> ""],
                                      !.businesses = businessesOf(det)],
                   state |-> searchState]
             ELSE [rec |-> [cur EXCEPT !.pc = "details", !.pager = "off", !.detailed = det,
                                      !.detailStatus = [i \in 1 .. Len(det) |-> ""]],
                   state |-> searchState]

\* part_002: the textSearch callback of fetchAllResults
callback(s, ans) ==
    /\ impl = "part_002"
    /\ ~Blocked
    /\ srch[s].pager = "page"
    /\ ans \in PageAnswers(s)
    /\ LET cur == [srch[s] EXCEPT
                     !.statuses = Append(@, ans.status),
                     !.allResults = IF ans.status = "OK" THEN @ \o ans.results ELSE @]
       IN  IF PageFails(ans.status)
           THEN /\ srch' = [srch EXCEPT ![s] =
                       Ended([cur EXCEPT !.pc = "free", !.pager = "off",
                                         !.outcome = "error"])]
                /\ searchState' = "error"
           ELSE IF ans.hasNextPage
           THEN /\ srch' = [srch EXCEPT ![s] = [cur EXCEPT !.pager = "timer", !.elapsed = 0]]
                /\ UNCHANGED searchState
           ELSE /\ srch' = [srch EXCEPT ![s] = AfterFetchAll(cur).rec]
                /\ searchState' = AfterFetchAll(cur).state
    /\ UNCHANGED <<impl, google, searchParams, searchResults, currentPage, leads,
                   nextDocId, tog, nSubmit, nToggle>>

\* App.tsx: the textSearch callback of fetchPage
fetchPage(s, ans) ==
    /\ impl = "App"
    /\ ~Blocked
    /\ srch[s].pager = "page"
    /\ ans \in PageAnswers(s)
    /\ LET cur == [srch[s] EXCEPT
                     !.statuses = Append(@, ans.status),
                     !.allResults = IF ans.status = "OK" THEN @ \o ans.results ELSE @]
       IN  IF ans.status # "OK"
           THEN /\ srch' = [srch EXCEPT ![s] =
                       Ended([cur EXCEPT !.pc = "free", !.pager = "off",
                                         !.outcome = "error"])]
                /\ searchState' = "error"
           ELSE IF ans.hasNextPage
           THEN /\ srch' = [srch EXCEPT ![s] = [cur EXCEPT !.pager = "timer", !.elapsed = 0]]
                /\ UNCHANGED searchState
           ELSE /\ srch' = [srch EXCEPT ![s] =
                       [cur EXCEPT !.pc = "store", !.pager = "off",
                                   !.businesses = [i \in 1 .. Len(cur.allResults) |->
                                                      toBusiness(cur.allResults[i])]]]
                /\ UNCHANGED searchState
    /\ UNCHANGED <<impl, google, searchParams, searchResults, currentPage, leads,
                   nextDocId, tog, nSubmit, nToggle>>

\* App.tsx: checkNext polls, every 500 ms, hasNextPage of the pagination
\* object of a page that offered a next page.  That object describes the
\* answer it came with, its flag stays true, so the poll re-arms itself
\* and fetchPage is resolved by the callback of the last page alone.
checkNext(s) ==
    /\ impl = "App"
    /\ ~Blocked
    /\ srch[s].pc = "fetch"
    /\ Len(srch[s].statuses) >= 1
    /\ UNCHANGED vars

\* ------------------------------------------------- the 2000 ms timer
\* time passes while the timer set on receipt of a page is pending
tick(s) ==
    /\ srch[s].pager = "timer"
    /\ srch[s].elapsed < DelayMs
    /\ srch' = [srch EXCEPT ![s].elapsed = @ + DelayMs]
    /\ UNCHANGED <<impl, google, searchParams, searchResults, searchState, currentPage,
                   leads, nextDocId, tog, nSubmit, nToggle>>

\* the browser runs a timer's function once its delay has elapsed
TimerExpiredAtOnce(elapsed) == elapsed >= 0

TimerExpired(elapsed) == elapsed >= DelayMs

\* setTimeout(() => { pagination.nextPage(); }, 2000)
nextPage(s) ==
    /\ ~Blocked
    /\ srch[s].pager = "timer"
    /\ TimerExpired(srch[s].elapsed)
    /\ srch' = [srch EXCEPT ![s].pager = "page"]
    /\ UNCHANGED <<impl, google, searchParams, searchResults, searchState, currentPage,
                   leads, nextDocId, tog, nSubmit, nToggle>>

\* ------------------------------------------------ the detail fan-out
\* (placeDetails, status) => status === OK ? resolve(placeDetails)
\*                                         : resolve(place)
detailResultDropsFailed(place, status) ==
    IF status = "OK"
    THEN [tag |-> "details", place |-> DetailsOf(place.place_id)]
    ELSE [tag |-> "null", place |-> NoPlace]

detailResult(place, status) ==
    IF status = "OK"
    THEN [tag |-> "details", place |-> DetailsOf(place.place_id)]
    ELSE [tag |-> "summary", place |-> place]

\* how many getDetails callbacks have run
Answered(det) == Cardinality({k \in 1 .. Len(det) : det[k].nth > 0})

\* await Promise.all(detailPromises): the value of the i-th promise is
\* the i-th element of detailedResults, whenever it resolves
resolveInCompletionOrder(det, i, result) ==
    LET first == CHOOSE k \in 1 .. Len(det) :
                    det[k].tag = "pending" /\ \A j \in 1 .. k - 1 : det[j].tag # "pending"
    IN  [det EXCEPT ![first] =
            [tag |-> result.tag, place |-> result.place, nth |-> Answered(det) + 1]]

resolveAt(det, i, result) ==
    [det EXCEPT ![i] =
        [tag |-> result.tag, place |-> result.place, nth |-> Answered(det) + 1]]

\* part_002: the getDetails callback of the i-th accumulated item;
\* Promise.all resolves when the last one has answered.
getDetails(s, i, status) ==
    /\ impl = "part_002"
    /\ ~Blocked
    /\ srch[s].pc = "details"
    /\ i \in 1 .. Len(srch[s].detailed)
    /\ srch[s].detailed[i].tag = "pending"
    /\ LET det == resolveAt(srch[s].detailed, i,
                            detailResult(srch[s].allResults[i], status))
       IN  srch' = [srch EXCEPT ![s] =
               IF AllSettled(det)
               THEN [@ EXCEPT !.pc = "store", !.detailed = det,
                              !.detailStatus[i] = status,
                              !.businesses = businessesOf(det)]
               ELSE [@ EXCEPT !.detailed = det, !.detailStatus[i] = status]]
    /\ UNCHANGED <<impl, google, searchParams, searchResults, searchState, currentPage,
                   leads, nextDocId, tog, nSubmit, nToggle>>

\* ----------------------------------------------------- reconciliation
\* query(collection(db, "leads"), where("businessType", "==", ...),
\*       where("location", "==", ...))
leadsQueryByTypeOnly(q) == {d \in leads : d.businessType = q.businessType}

leadsQuery(q) ==
    {d \in leads : d.businessType = q.businessType /\ d.location = q.location}

contactedApiIds(q) == {d.apiId : d \in leadsQuery(q)}

updatedBusinesses(businesses, q) ==
    [i \in 1 .. Len(businesses) |->
        [businesses[i] EXCEPT !.contacted = businesses[i].apiId \in contactedApiIds(q)]]

\* the answer to getDocs(leadsQuery) of handleSearch and what follows it
getDocsSwallowsFailure(s, ok) ==
    /\ ~Blocked
    /\ srch[s].pc = "store"
    /\ IF ok
       THEN /\ searchResults' = updatedBusinesses(srch[s].businesses, srch[s].q)
            /\ searchState' = "success"
            /\ srch' = [srch EXCEPT ![s] =
                   Ended([@ EXCEPT !.pc = "free", !.outcome = "success"])]
       ELSE /\ UNCHANGED searchState
            /\ srch' = [srch EXCEPT ![s] =
                   Ended([@ EXCEPT !.pc = "free", !.outcome = "error"])]
            /\ UNCHANGED searchResults
    /\ UNCHANGED <<impl, google, searchParams, currentPage, leads, nextDocId, tog,
                   nSubmit, nToggle>>

getDocs(s, ok) ==
    /\ ~Blocked
    /\ srch[s].pc = "store"
    /\ IF ok
       THEN /\ searchResults' = updatedBusinesses(srch[s].businesses, srch[s].q)
            /\ searchState' = "success"
            /\ srch' = [srch EXCEPT ![s] =
                   Ended([@ EXCEPT !.pc = "free", !.outcome = "success"])]
       ELSE /\ searchState' = "error"
            /\ srch' = [srch EXCEPT ![s] =
                   Ended([@ EXCEPT !.pc = "free", !.outcome = "error"])]
            /\ UNCHANGED searchResults
    /\ UNCHANGED <<impl, google, searchParams, currentPage, leads, nextDocId, tog,
                   nSubmit, nToggle>>

\* ---------------------------------------------- the pagination window
Max(a, b) == IF a >= b THEN a ELSE b
Min(a, b) == IF a <= b THEN a ELSE b

\* Math.ceil(searchResults.length / resultsPerPage)
totalPages == (Len(searchResults) + resultsPerPage - 1) \div resultsPerPage

indexOfLastResultOneLong == currentPage * resultsPerPage + 1

indexOfLastResult == currentPage * resultsPerPage
indexOfFirstResult == indexOfLastResult - resultsPerPage

\* Array.prototype.slice(from, to) for 0 <= from <= to: the elements at
\* the 0-based positions from .. to - 1 that exist
slice(l, from, to) == SubSeq(l, from + 1, Min(to, Len(l)))

currentResults == slice(searchResults, indexOfFirstResult, indexOfLastResult)

\* <td>{indexOfFirstResult + i + 1}</td> of the i-th row (0-based)
rowNumber(i) == indexOfFirstResult + i + 1

\* the table is rendered when searchState === "success" and the list is
\* not empty; its rows are searchResults.slice(first, last)
TableShown == searchState = "success" /\ Len(searchResults) > 0

RowsShown ==
    {i \in 0 .. resultsPerPage - 1 : indexOfFirstResult + i < Len(searchResults)}

\* the Previous / Next buttons are rendered below the table, in part_002
\* only when there is more than one page
PagerShown == TableShown /\ (impl = "part_002" => totalPages > 1)

\* onClick of Previous: setCurrentPage((prev) => Math.max(prev - 1, 1)),
\* disabled={currentPage === 1}
Previous ==
    /\ ~Blocked
    /\ PagerShown
    /\ currentPage # 1
    /\ currentPage' = Max(currentPage - 1, 1)
    /\ UNCHANGED <<impl, google, searchParams, searchResults, searchState, leads,
                   nextDocId, srch, tog, nSubmit, nToggle>>

\* onClick of Next: setCurrentPage((prev) => Math.min(prev + 1, totalPages)),
\* disabled={currentPage === totalPages}
NextButton ==
    /\ ~Blocked
    /\ PagerShown
    /\ currentPage # totalPages
    /\ currentPage' = Min(currentPage + 1, totalPages)
    /\ UNCHANGED <<impl, google, searchParams, searchResults, searchState, leads,
                   nextDocId, srch, tog, nSubmit, nToggle>>

\* ----------------------------------------------- handleCheckboxChange
\* The change handler of the checkbox of row i, up to window.confirm.
\* part_002 keeps a copy of the list (originalResults) and publishes a
\* list with the flag flipped; App.tsx flips the flag of the Business
\* object in place and asks for confirmation only when the flag is now
\* true: an uncheck ends there.
handleCheckboxChangeRowOnly(i) ==
    /\ ~Blocked
    /\ TableShown
    /\ i \in RowsShown
    /\ nToggle < MaxToggles
    /\ nToggle' = nToggle + 1
    /\ LET globalIndex == i
           targetBusiness == searchResults[globalIndex + 1]
           isNowChecked == ~targetBusiness.contacted
           asks == impl = "part_002" \/ isNowChecked
       IN  /\ searchResults' =
                 [searchResults EXCEPT ![globalIndex + 1].contacted = isNowChecked]
           /\ tog' = [tog EXCEPT ![FreeToggleSlot] = Settled(
                 [IdleToggle EXCEPT
                    !.pc = IF asks THEN "confirm" ELSE "free",
                    !.outcome = IF asks THEN "none" ELSE "unchecked",
                    !.globalIndex = globalIndex,
                    !.originalResults = IF impl = "part_002" THEN searchResults ELSE <<>>,
                    !.targetBusiness = targetBusiness,
                    !.isNowChecked = isNowChecked,
                    !.q = searchParams,
                    !.clickNo = nToggle + 1])]
    /\ UNCHANGED <<impl, google, searchParams, searchState, currentPage, leads,
                   nextDocId, srch, nSubmit>>

handleCheckboxChange(i) ==
    /\ ~Blocked
    /\ TableShown
    /\ i \in RowsShown
    /\ nToggle < MaxToggles
    /\ nToggle' = nToggle + 1
    /\ LET globalIndex == indexOfFirstResult + i
           targetBusiness == searchResults[globalIndex + 1]
           isNowChecked == ~targetBusiness.contacted
           asks == impl = "part_002" \/ isNowChecked
       IN  /\ searchResults' =
                 [searchResults EXCEPT ![globalIndex + 1].contacted = isNowChecked]
           /\ tog' = [tog EXCEPT ![FreeToggleSlot] = Settled(
                 [IdleToggle EXCEPT
                    !.pc = IF asks THEN "confirm" ELSE "free",
                    !.outcome = IF asks THEN "none" ELSE "unchecked",
                    !.globalIndex = globalIndex,
                    !.originalResults = IF impl = "part_002" THEN searchResults ELSE <<>>,
                    !.targetBusiness = targetBusiness,
                    !.isNowChecked = isNowChecked,
                    !.q = searchParams,
                    !.clickNo = nToggle + 1])]
    /\ UNCHANGED <<impl, google, searchParams, searchState, currentPage, leads,
                   nextDocId, srch, nSubmit>>

\* what the list is set to when the user cancels: part_002 restores
\* originalResults, App.tsx sets the flag of the row to false
ResultsOnCancelKeeps(t) == searchResults

ResultsOnCancelSetsFalse(t) ==
    [searchResults EXCEPT ![tog[t].globalIndex + 1].contacted = FALSE]

ResultsOnCancel(t) ==
    IF impl = "part_002"
    THEN tog[t].originalResults
    ELSE [searchResults EXCEPT ![tog[t].globalIndex + 1].contacted = FALSE]

\* The answer of window.confirm and the code up to the next suspension:
\* yes issues addDoc (checking) or the getDocs lookup (unchecking), no
\* reverts without a request.
windowConfirmIgnoresAnswer(t, yes) ==
    /\ tog[t].pc = "confirm"
    /\ tog' = [tog EXCEPT ![t] = Settled([@ EXCEPT
                  !.answer = IF yes THEN "yes" ELSE "no",
                  !.pc = IF tog[t].isNowChecked THEN "insert" ELSE "lookup"])]
    /\ UNCHANGED <<impl, google, searchParams, searchResults, searchState, currentPage,
                   leads, nextDocId, srch, nSubmit, nToggle>>

windowConfirm(t, yes) ==
    /\ tog[t].pc = "confirm"
    /\ IF yes
       THEN /\ tog' = [tog EXCEPT ![t] = Settled([@ EXCEPT !.answer = "yes", !.pc =
                           IF tog[t].isNowChecked THEN "insert" ELSE "lookup"])]
            /\ UNCHANGED searchResults
       ELSE /\ searchResults' = ResultsOnCancel(t)
            /\ tog' = [tog EXCEPT ![t] = Settled([@ EXCEPT !.pc = "free", !.outcome = "declined"])]
    /\ UNCHANGED <<impl, google, searchParams, searchState, currentPage, leads,
                   nextDocId, srch, nSubmit, nToggle>>

\* the document addDoc writes: {...targetBusiness, contacted: true,
\* businessType, location, timestamp: Timestamp.now()}; time is the
\* ordinal of the click
newLead(t) ==
    [id |-> nextDocId,
     apiId |-> tog[t].targetBusiness.apiId,
     name |-> tog[t].targetBusiness.name,
     phone |-> tog[t].targetBusiness.phone,
     address |-> tog[t].targetBusiness.address,
     website |-> tog[t].targetBusiness.website,
     contacted |-> TRUE,
     businessType |-> tog[t].q.businessType,
     location |-> tog[t].q.location,
     timestamp |-> tog[t].clickNo]

\* catch of addDoc: part_002 does setSearchResults(originalResults),
\* App.tsx only alerts
ResultsOnSaveFailureKeeps(t) == searchResults

ResultsOnSaveFailure(t) ==
    IF impl = "part_002" THEN tog[t].originalResults ELSE searchResults

\* the answer of the store to addDoc
addDocRetries(t, ok) ==
    /\ ~Blocked
    /\ tog[t].pc = "insert"
    /\ IF ok
       THEN /\ leads' = leads \cup {newLead(t)}
            /\ nextDocId' = nextDocId + 1
            /\ tog' = [tog EXCEPT ![t] = Settled([@ EXCEPT !.pc = "free", !.outcome = "confirmed",
                                  !.said = "Lead saved successfully!"])]
            /\ UNCHANGED searchResults
       ELSE /\ searchResults' = ResultsOnSaveFailure(t)
            /\ tog' = [tog EXCEPT ![t] = [@ EXCEPT !.outcome = "rolledBack",
                                  !.said = "Failed to save lead."]]
            /\ UNCHANGED <<leads, nextDocId>>
    /\ UNCHANGED <<impl, google, searchParams, searchState, currentPage, srch,
                   nSubmit, nToggle>>

addDoc(t, ok) ==
    /\ ~Blocked
    /\ tog[t].pc = "insert"
    /\ IF ok
       THEN /\ leads' = leads \cup {newLead(t)}
            /\ nextDocId' = nextDocId + 1
            /\ tog' = [tog EXCEPT ![t] = Settled([@ EXCEPT !.pc = "free", !.outcome = "confirmed",
                                  !.said = "Lead saved successfully!"])]
            /\ UNCHANGED searchResults
       ELSE /\ searchResults' = ResultsOnSaveFailure(t)
            /\ tog' = [tog EXCEPT ![t] = Settled([@ EXCEPT !.pc = "free", !.outcome = "rolledBack",
                                  !.said = "Failed to save lead."])]
            /\ UNCHANGED <<leads, nextDocId>>
    /\ UNCHANGED <<impl, google, searchParams, searchState, currentPage, srch,
                   nSubmit, nToggle>>

\* catch of the uncheck path: setSearchResults(originalResults)
ResultsOnRemoveFailureKeeps(t) == searchResults

ResultsOnRemoveFailure(t) == tog[t].originalResults

\* query(collection(db, "leads"), where("apiId", "==", targetBusiness.apiId))
leadsOfApiId(apiId) == {d \in leads : d.apiId = apiId}

\* if (querySnapshot.empty) { alert(...); return; }: the list is left as
\* the optimistic update made it
ResultsOnNotFoundReverts(t) == tog[t].originalResults

ResultsOnNotFound(t) == searchResults

\* part_002: the answer to the getDocs lookup of an uncheck; an empty
\* snapshot alerts and returns, otherwise one deleteDoc per document is
\* issued
lookupLeads(t, ok) ==
    /\ ~Blocked
    /\ tog[t].pc = "lookup"
    /\ LET found == {d.id : d \in leadsOfApiId(tog[t].targetBusiness.apiId)}
       IN  IF ~ok
           THEN /\ searchResults' = ResultsOnRemoveFailure(t)
                /\ tog' = [tog EXCEPT ![t] = Settled([@ EXCEPT !.pc = "free", !.outcome = "rolledBack",
                                      !.said = "Failed to remove lead record."])]
           ELSE IF found = {}
           THEN /\ tog' = [tog EXCEPT ![t] = Settled([@ EXCEPT !.pc = "free", !.outcome = "notFound",
                                      !.said = "Could not find the saved lead to remove."])]
                /\ searchResults' = ResultsOnNotFound(t)
           ELSE /\ tog' = [tog EXCEPT ![t] = Settled([@ EXCEPT !.pc = "delete", !.pending = found])]
                /\ UNCHANGED searchResults
    /\ UNCHANGED <<impl, google, searchParams, searchState, currentPage, leads,
                   nextDocId, srch, nSubmit, nToggle>>

\* part_002: the answer of the store to one deleteDoc.  Promise.all
\* resolves when the last delete has succeeded and rejects at the first
\* failure; the deletes still outstanding then (pc = "drain") are
\* answered after the handler has ended.
deleteDoc(t, id, ok) ==
    /\ ~Blocked
    /\ tog[t].pc \in {"delete", "drain"}
    /\ id \in tog[t].pending
    /\ leads' = IF ok THEN {d \in leads : d.id # id} ELSE leads
    /\ LET left == tog[t].pending \ {id}
           waiting == tog[t].pc = "delete"
       IN  IF waiting /\ ~ok
           THEN /\ searchResults' = ResultsOnRemoveFailure(t)
                /\ tog' = [tog EXCEPT ![t] = Settled([@ EXCEPT !.pc = IF left = {} THEN "free" ELSE "drain",
                                      !.pending = left,
                                      !.outcome = "rolledBack",
                                      !.said = "Failed to remove lead record."])]
           ELSE IF waiting /\ left = {}
           THEN /\ tog' = [tog EXCEPT ![t] = Settled([@ EXCEPT !.pc = "free", !.pending = left,
                                      !.outcome = "confirmed",
                                      !.said = "Lead record removed successfully!"])]
                /\ UNCHANGED searchResults
           ELSE /\ tog' = [tog EXCEPT ![t] = Settled([@ EXCEPT !.pc = IF left = {} THEN "free" ELSE @,
                                      !.pending = left])]
                /\ UNCHANGED searchResults
    /\ UNCHANGED <<impl, google, searchParams, searchState, currentPage, nextDocId,
                   srch, nSubmit, nToggle>>

\* ------------------------------------------------- the specification
\* the user has events left in a session that is followed from its start
EventsLeft == nSubmit + nToggle < MaxEvents

Next ==
    \/ \E v \in BusinessTypes : setBusinessType(v)
    \/ \E v \in Locations : setLocation(v)
    \/ EventsLeft /\ handleSearch
    \/ \E s \in SearchSlots, how \in {"defines", "blank", "onerror"} :
          loadGoogleMapsSDK(s, how)
    \/ \E s \in SearchSlots : \E ans \in PageAnswers(s) : callback(s, ans)
    \/ \E s \in SearchSlots : \E ans \in PageAnswers(s) : fetchPage(s, ans)
    \/ \E s \in SearchSlots : checkNext(s)
    \/ \E s \in SearchSlots : tick(s)
    \/ \E s \in SearchSlots : nextPage(s)
    \/ \E s \in SearchSlots : \E i \in 1 .. Len(srch[s].detailed) :
          \E status \in {"OK", "NOT_FOUND"} : getDetails(s, i, status)
    \/ \E s \in SearchSlots, ok \in BOOLEAN : getDocs(s, ok)
    \/ EventsLeft /\ \E i \in 0 .. resultsPerPage - 1 : handleCheckboxChange(i)
    \/ \E t \in ToggleSlots, yes \in BOOLEAN : windowConfirm(t, yes)
    \/ \E t \in ToggleSlots, ok \in BOOLEAN : addDoc(t, ok)
    \/ \E t \in ToggleSlots, ok \in BOOLEAN : lookupLeads(t, ok)
    \/ \E t \in ToggleSlots, id \in 1 .. nextDocId, ok \in BOOLEAN : deleteDoc(t, id, ok)

Spec == Init /\ [][Next]_vars

\* ------------------------------------------------------------- steps
\* the step in which the invocation of handleSearch in slot s ends
SearchEnds(s) == srch[s].pc # "free" /\ srch'[s].pc = "free"

\* the step in which slot s hands its reconciled list to setSearchResults
Publishes(s) ==
    srch[s].pc = "store" /\ srch'[s].pc = "free" /\ srch'[s].outcome = "success"

\* the 0-based row of toggle t is a row of list l
HasRow(l, t) == tog[t].globalIndex + 1 <= Len(l)

\* ------------------------------------------------------------ claims
\* C1: in part_002, a search whose text search is answered with
\* ZERO_RESULTS ends in state success with an empty candidate list.
C1_ZeroResultsEndsInEmptySuccess ==
    [][\A s \in SearchSlots :
          (impl = "part_002" /\ SearchEnds(s)
             /\ srch'[s].statuses = <<"ZERO_RESULTS">>)
          => (searchState' = "success" /\ searchResults' = <<>>)]_vars

\* C2: in part_002, a search one of whose pages is answered with a
\* status that is neither OK nor ZERO_RESULTS ends in state error with an
\* empty candidate list.
C2_FailedPageEndsInEmptyError ==
    [][\A s \in SearchSlots :
          (impl = "part_002" /\ SearchEnds(s)
             /\ \E n \in 1 .. Len(srch'[s].statuses) : PageFails(srch'[s].statuses[n]))
          => (searchState' = "error" /\ searchResults' = <<>>)]_vars

\* C3: in part_002, the list a search publishes after pages that all
\* returned OK has as many entries as the pages had items together.
C3_PublishedCountIsSumOfPages ==
    [][\A s \in SearchSlots :
          (impl = "part_002" /\ Publishes(s)
             /\ \A n \in 1 .. Len(srch[s].statuses) : srch[s].statuses[n] = "OK")
          => Len(searchResults') = Len(srch[s].allResults)]_vars

\* candidate b holds the fields of a text-search result and no others
FromSummary(b, place) ==
    /\ b.apiId = place.place_id
    /\ b.name = place.name
    /\ b.address = place.formatted_address
    /\ b.phone = "N/A"
    /\ b.website = "N/A"

\* C4: in part_002, a failed detail lookup neither ends the search nor
\* puts it in state error, and the published list holds a candidate built
\* from the summary of every item whose lookup failed.
C4_FailedLookupFallsBackToSummary ==
    [][\A s \in SearchSlots : impl = "part_002" =>
          /\ srch[s].pc = "details" =>
                (srch'[s].pc \in {"details", "store"} /\ searchState' # "error")
          /\ Publishes(s) =>
                \A i \in 1 .. Len(srch[s].detailStatus) :
                    srch[s].detailStatus[i] \notin {"", "OK"} =>
                        \E j \in 1 .. Len(searchResults') :
                            FromSummary(searchResults'[j], srch[s].allResults[i])]_vars

\* a list is on display that holds a candidate built from its summary
W4_FallbackCandidateListed ==
    /\ impl = "part_002"
    /\ searchState = "success"
    /\ \E i \in 1 .. Len(searchResults) :
          searchResults[i].apiId \in PlaceIds /\ searchResults[i].phone = "N/A"

\* C5: in part_002, the list is published only once every detail lookup
\* has been answered, and its order is the order of accumulation whatever
\* the order of the answers.
HasPlaceId(place) == place.place_id # ""

ApiIds(l) == [i \in 1 .. Len(l) |-> l[i].apiId]
PlaceIdsOf(l) == [i \in 1 .. Len(l) |-> l[i].place_id]

C5_PublishedInAccumulationOrder ==
    [][\A s \in SearchSlots : (impl = "part_002" /\ Publishes(s)) =>
          /\ AllSettled(srch[s].detailed)
          /\ Len(srch[s].detailed) = Len(srch[s].allResults)
          /\ ApiIds(searchResults') =
                PlaceIdsOf(SelectSeq(srch[s].allResults, HasPlaceId))]_vars

\* every lookup is answered, the second item's before the first's, and
\* the list about to be published is in the order of accumulation
W5_SecondAnsweredFirst ==
    \E s \in SearchSlots :
        /\ impl = "part_002"
        /\ srch[s].pc = "store"
        /\ Len(srch[s].detailed) = 2
        /\ srch[s].detailed[1].nth = 2
        /\ srch[s].detailed[2].nth = 1
        /\ ApiIds(srch[s].businesses) = PlaceIdsOf(srch[s].allResults)

\* C6: the request for a next page is issued by the delay timer alone,
\* which starts at zero on receipt of the page and fires no earlier than
\* 2000 ms later.
C6_NextPageAfterDelay ==
    [][\A s \in SearchSlots :
          /\ (srch'[s].pager = "timer" /\ srch[s].pager # "timer") =>
                (srch[s].pager = "page" /\ srch'[s].elapsed = 0)
          /\ (srch'[s].pager = "page" /\ srch[s].pager # "page"
                /\ Len(srch'[s].statuses) >= 1) =>
                (srch[s].pager = "timer" /\ srch[s].elapsed >= 2000)]_vars

\* the second page has been requested, 2000 ms after the first arrived
W6_SecondPageRequested ==
    \E s \in SearchSlots :
        /\ srch[s].pager = "page"
        /\ Len(srch[s].statuses) = 1
        /\ srch[s].elapsed >= 2000

\* C7: in the list a search publishes, a candidate is contacted exactly
\* when the store holds a record with its identifier and with the very
\* category and location of the search.
C7_ContactedIffRecordOfSameQuery ==
    [][\A s \in SearchSlots : Publishes(s) =>
          \A i \in 1 .. Len(searchResults') :
              searchResults'[i].contacted <=>
                  \E d \in leads :
                      /\ d.apiId = searchResults'[i].apiId
                      /\ d.businessType = srch[s].q.businessType
                      /\ d.location = srch[s].q.location]_vars

\* A and B are listed; the store holds a record of B for the query and
\* records of A for another location and another spelling of the
\* category: B alone is contacted
W7_OnlyRecordOfSameQueryMarks ==
    /\ searchState = "success"
    /\ Len(searchResults) = 2
    /\ searchResults[1].apiId = "A" /\ ~searchResults[1].contacted
    /\ searchResults[2].apiId = "B" /\ searchResults[2].contacted
    /\ \E d \in leads : d.apiId = "A" /\ d.businessType = "cafe" /\ d.location # "NYC"
    /\ \E d \in leads : d.apiId = "A" /\ d.businessType # "cafe" /\ d.location = "NYC"
    /\ nToggle = 0

\* C8: a submit with an empty category or an empty location changes
\* nothing and sends nothing.
C8_EmptyQueryTriggersNothing ==
    [][(nSubmit' = nSubmit + 1
          /\ (searchParams.businessType = "" \/ searchParams.location = ""))
       => UNCHANGED <<searchState, searchResults, currentPage, srch, tog, leads,
                      nextDocId, google, searchParams>>]_vars

\* the form was submitted with an empty field and no search has started
W8_RejectedSubmit ==
    /\ nSubmit >= 1
    /\ searchState = "idle"
    /\ \A s \in SearchSlots : srch[s] = IdleSearch

\* C10: declining the confirmation of a toggle to contacted leaves the
\* flag false and sends nothing to the store.
C10_DeclinedCheckWritesNothing ==
    [][\A t \in ToggleSlots :
          (tog[t].pc = "confirm" /\ tog[t].isNowChecked
             /\ tog'[t].pc \notin {"confirm", "insert"}) =>
              /\ tog'[t].pc = "free"
              /\ tog'[t].outcome = "declined"
              /\ HasRow(searchResults', t)
              /\ ~searchResults'[tog[t].globalIndex + 1].contacted
              /\ UNCHANGED <<leads, nextDocId, srch>>
              /\ \A u \in ToggleSlots \ {t} : tog'[u] = tog[u]]_vars

\* a toggle to contacted was declined and the row is not contacted
W10_DeclinedCheck ==
    \E t \in ToggleSlots :
        /\ tog[t].outcome = "declined"
        /\ tog[t].isNowChecked
        /\ HasRow(searchResults, t)
        /\ ~searchResults[tog[t].globalIndex + 1].contacted

\* the candidate toggle t was started on is at its row in list l
StillListed(l, t) ==
    HasRow(l, t) /\ l[tog[t].globalIndex + 1].apiId = tog[t].targetBusiness.apiId

\* no other toggle has been started on the row of toggle t
AloneOnRow(t) ==
    \A u \in ToggleSlots \ {t} :
        tog[u] = IdleToggle \/ tog[u].globalIndex # tog[t].globalIndex

\* C9: every toggle of part_002 flips the flag of its row in the step of
\* the click, before the confirmation is answered, and when it settles
\* the flag of the targeted candidate, if the candidate is still listed
\* and no other toggle was started on its row, is the new value
\* (confirmed) or the pre-toggle value (rolled back).
C9_ToggleSettlesConfirmedOrRolledBack ==
    [][\A t \in ToggleSlots : impl = "part_002" =>
          /\ (tog[t].pc = "free" /\ tog'[t].pc # "free") =>
                /\ tog'[t].pc = "confirm"
                /\ HasRow(searchResults, t)'
                /\ searchResults'[tog'[t].globalIndex + 1].contacted = tog'[t].isNowChecked
                /\ searchResults[tog'[t].globalIndex + 1].contacted = ~tog'[t].isNowChecked
          /\ (tog[t].pc \in {"confirm", "insert", "lookup", "delete"}
                /\ tog'[t].pc \in {"free", "drain"}) =>
                /\ tog'[t].outcome \in {"confirmed", "notFound", "rolledBack", "declined"}
                /\ (StillListed(searchResults', t) /\ AloneOnRow(t)) =>
                      searchResults'[tog[t].globalIndex + 1].contacted =
                          IF tog'[t].outcome \in {"rolledBack", "declined"}
                          THEN ~tog[t].isNowChecked
                          ELSE tog[t].isNowChecked]_vars

\* the step in which the store rejects the insert of toggle t
InsertFails(t) ==
    tog[t].pc = "insert" /\ tog'[t].pc = "free" /\ leads' = leads

\* the step in which the store accepts the insert of toggle t
InsertSucceeds(t) ==
    tog[t].pc = "insert" /\ tog'[t].pc = "free" /\ leads' # leads

\* C11: in part_002, when the insert of a confirmed toggle to contacted
\* fails, the candidate is listed at its row with the flag false and the
\* user is told that the save failed.
C11_FailedInsertRevertsFlag ==
    [][\A t \in ToggleSlots : (impl = "part_002" /\ InsertFails(t)) =>
          /\ tog[t].isNowChecked
          /\ StillListed(searchResults', t)
          /\ ~searchResults'[tog[t].globalIndex + 1].contacted
          /\ tog'[t].said = "Failed to save lead."]_vars

\* the insert of a toggle to contacted has failed, the row is not
\* contacted and nothing was written
W11_FailedInsertReverted ==
    \E t \in ToggleSlots :
        /\ impl = "part_002"
        /\ tog[t].outcome = "rolledBack"
        /\ tog[t].isNowChecked
        /\ tog[t].said = "Failed to save lead."
        /\ HasRow(searchResults, t)
        /\ ~searchResults[tog[t].globalIndex + 1].contacted
        /\ nextDocId = 4

\* record d is a snapshot of candidate b, marked contacted
SnapshotOf(d, b) ==
    /\ d.apiId = b.apiId
    /\ d.name = b.name
    /\ d.address = b.address
    /\ d.phone = b.phone
    /\ d.website = b.website
    /\ d.contacted

\* C12: in part_002, when the insert of a confirmed toggle to contacted
\* succeeds, the store gains exactly one record, a snapshot of the
\* candidate with contacted = true and the time of the toggle, and the
\* candidate, if it is still listed and no other toggle was started on
\* its row, has the flag true.
C12_SuccessfulInsertAddsOneRecord ==
    [][\A t \in ToggleSlots : (impl = "part_002" /\ InsertSucceeds(t)) =>
          /\ leads \subseteq leads'
          /\ Cardinality(leads' \ leads) = 1
          /\ \A d \in leads' \ leads :
                SnapshotOf(d, tog[t].targetBusiness) /\ d.timestamp = tog[t].clickNo
          /\ (StillListed(searchResults', t) /\ AloneOnRow(t)) =>
                searchResults'[tog[t].globalIndex + 1].contacted]_vars

\* the queries of the searches that were accepted (every slot keeps the
\* query it was last given)
AcceptedQueries == {srch[s].q : s \in {r \in SearchSlots : srch[r] # IdleSearch}}

\* C13: every record a toggle writes carries the category and location
\* of a search, the one that produced the toggled candidate.
C13_RecordCarriesOriginatingQuery ==
    [][\A d \in leads' \ leads :
          \E q \in AcceptedQueries :
              d.businessType = q.businessType /\ d.location = q.location]_vars

\* the step in which the last delete of toggle t succeeds and the
\* handler ends
DeletesSucceed(t) ==
    tog[t].pc = "delete" /\ tog'[t].pc = "free" /\ tog'[t].outcome = "confirmed"

\* C14: in part_002, when all the deletes of a confirmed toggle to
\* not-contacted have succeeded, the store holds no record with the
\* candidate's identifier and the candidate, if it is still listed and no
\* other toggle was started on its row, has the flag false.
C14_UncheckDeletesEveryRecord ==
    [][\A t \in ToggleSlots : (impl = "part_002" /\ DeletesSucceed(t)) =>
          /\ ~tog[t].isNowChecked
          /\ AloneOnRow(t) =>
                \A d \in leads' : d.apiId # tog[t].targetBusiness.apiId
          /\ (StillListed(searchResults', t) /\ AloneOnRow(t)) =>
                ~searchResults'[tog[t].globalIndex + 1].contacted]_vars

\* the step in which the lookup of toggle t is answered with no record
NothingFound(t) ==
    tog[t].pc = "lookup" /\ tog'[t].pc = "free" /\ tog'[t].outcome = "notFound"

RemovalFails(t) ==
    tog[t].pc \in {"lookup", "delete"} /\ tog'[t].outcome = "rolledBack"

\* C16: in part_002, when the lookup or one of the deletes of a confirmed
\* toggle to not-contacted fails, the candidate is listed at its row with
\* the flag true and the user is told that the removal failed.
C16_FailedRemovalRevertsFlag ==
    [][\A t \in ToggleSlots : (impl = "part_002" /\ RemovalFails(t)) =>
          /\ ~tog[t].isNowChecked
          /\ tog'[t].pc \in {"free", "drain"}
          /\ StillListed(searchResults', t)
          /\ searchResults'[tog[t].globalIndex + 1].contacted
          /\ tog'[t].said = "Failed to remove lead record."]_vars

\* a delete has failed, its record is still stored and the row is
\* contacted again
W16_FailedDeleteReverted ==
    \E t \in ToggleSlots :
        /\ impl = "part_002"
        /\ tog[t].outcome = "rolledBack"
        /\ ~tog[t].isNowChecked
        /\ tog[t].said = "Failed to remove lead record."
        /\ HasRow(searchResults, t)
        /\ searchResults[tog[t].globalIndex + 1].contacted
        /\ searchResults[tog[t].globalIndex + 1].apiId = "B"
        /\ \E d \in leads : d.apiId = "B"

\* the step in which the user declines the confirmation of toggle t
Declines(t) ==
    tog[t].pc = "confirm" /\ tog'[t].pc \notin {"confirm", "insert", "lookup"}

\* C17: in part_002, declining the confirmation of a toggle to
\* not-contacted puts the flag back to true and sends nothing to the
\* store: no lookup, no delete.
C17_DeclinedUncheckRevertsFlag ==
    [][\A t \in ToggleSlots :
          (impl = "part_002" /\ Declines(t) /\ ~tog[t].isNowChecked) =>
              /\ tog'[t].pc = "free"
              /\ tog'[t].pending = {}
              /\ StillListed(searchResults', t)
              /\ searchResults'[tog[t].globalIndex + 1].contacted
              /\ UNCHANGED <<leads, nextDocId, srch>>
              /\ \A u \in ToggleSlots \ {t} : tog'[u] = tog[u]]_vars

\* a toggle to not-contacted was declined, the row is contacted and the
\* record is still stored
W17_DeclinedUncheck ==
    \E t \in ToggleSlots :
        /\ impl = "part_002"
        /\ tog[t].outcome = "declined"
        /\ ~tog[t].isNowChecked
        /\ HasRow(searchResults, t)
        /\ searchResults[tog[t].globalIndex + 1].contacted
        /\ searchResults[tog[t].globalIndex + 1].apiId = "B"
        /\ \E d \in leads : d.apiId = "B"

\* C18: the store changes only by the insert or by a delete of a toggle
\* whose confirmation the user has answered with yes.
C18_StoreChangesOnlyAfterYes ==
    [][leads' # leads =>
          \E t \in ToggleSlots :
              /\ tog[t].answer = "yes"
              /\ \/ /\ tog[t].isNowChecked
                    /\ tog[t].pc = "insert"
                    /\ leads \subseteq leads'
                    /\ \A d \in leads' \ leads : d.apiId = tog[t].targetBusiness.apiId
                 \/ /\ ~tog[t].isNowChecked
                    /\ tog[t].pc \in {"delete", "drain"}
                    /\ leads' \subseteq leads
                    /\ \A d \in leads \ leads' : d.id \in tog[t].pending]_vars

\* a record was written by one confirmed toggle and a record was deleted
\* by another
W18_InsertedAndDeleted ==
    /\ \E d \in leads : d.id >= 4
    /\ \A d \in leads : d.id # 1
    /\ \E t \in ToggleSlots : tog[t].outcome = "confirmed" /\ ~tog[t].isNowChecked
    /\ \E t \in ToggleSlots : tog[t].outcome = "confirmed" /\ tog[t].isNowChecked

\* ------------------------------------------------ turning the pages
\* The session after a search for (cafe, NYC) has published a list of n
\* candidates, 0 <= n <= MaxListLen, none of them contacted; the user
\* turns the pages.
Candidate(i) ==
    [apiId |-> "P" \o ToString(i), name |-> "Place " \o ToString(i),
     phone |-> "N/A", address |-> "N/A", website |-> "N/A", contacted |-> FALSE]

PageInit ==
    /\ impl \in Impls
    /\ google = "present"
    /\ searchParams = [businessType |-> "cafe", location |-> "NYC"]
    /\ \E n \in 0 .. MaxListLen : searchResults = [i \in 1 .. n |-> Candidate(i)]
    /\ searchState = "success"
    /\ currentPage = 1
    /\ leads = {}
    /\ nextDocId = 4
    /\ srch = [s \in SearchSlots |->
                 IF s = 1
                 THEN [IdleSearch EXCEPT !.q = searchParams, !.statuses = <<"OK">>,
                                         !.outcome = "success"]
                 ELSE IdleSearch]
    /\ tog = [t \in ToggleSlots |-> IdleToggle]
    /\ nSubmit = 1
    /\ nToggle = 0

PageNext == Previous \/ NextButton

PageSpec == PageInit /\ [][PageNext]_vars

\* C19: with n candidates and pages of 20 there are ceil(n/20) pages, and
\* page p of them shows the candidates at positions (p-1)*20+1 ..
\* min(p*20, n), numbered with these positions; with 45 candidates there
\* are 3 pages and page 3 shows 5 rows numbered 41 to 45.
C19_PageShowsItsWindow ==
    LET n == Len(searchResults)
        p == currentPage
        first == (p - 1) * 20 + 1
        last == IF p * 20 <= n THEN p * 20 ELSE n
    IN  /\ totalPages * 20 >= n
        /\ (totalPages - 1) * 20 < n \/ (n = 0 /\ totalPages = 0)
        /\ (1 <= p /\ p <= totalPages) =>
              /\ Len(currentResults) = last - first + 1
              /\ \A i \in 1 .. Len(currentResults) :
                    /\ currentResults[i] = searchResults[first + i - 1]
                    /\ rowNumber(i - 1) = first + i - 1
        /\ n = 45 =>
              /\ totalPages = 3
              /\ p = 3 => /\ Len(currentResults) = 5
                          /\ {rowNumber(i - 1) : i \in 1 .. Len(currentResults)} = 41 .. 45

\* 45 candidates are listed and page 3 is shown
W19_ThirdPageOfFortyFive ==
    /\ Len(searchResults) = 45
    /\ currentPage = 3
    /\ Len(currentResults) = 5

\* C20: a failed request is not issued again.  A failure of the SDK
\* load, of a page request, of the store query or of the insert ends its
\* handler with nothing outstanding; an answered detail lookup stays
\* answered and the deletes outstanding only become fewer; and a handler
\* starts, and the first page is requested, only on a submit or a click.
C20_NoAutomaticRetry ==
    [][/\ \A s \in SearchSlots :
             /\ (srch[s].outcome # "error" /\ srch'[s].outcome = "error") =>
                   /\ srch'[s].pc = "free"
                   /\ srch'[s].pager = "off"
                   /\ srch'[s].detailed = <<>>
             /\ (srch[s].pc = "free" /\ srch'[s].pc # "free") => nSubmit' = nSubmit + 1
             /\ (srch[s].pager = "off" /\ srch'[s].pager # "off") =>
                   (nSubmit' = nSubmit + 1 \/ srch[s].pc = "sdk")
             /\ (srch[s].pc = "details" /\ srch'[s].pc \in {"details", "store"}) =>
                   \A i \in 1 .. Len(srch[s].detailed) :
                       srch[s].detailed[i].tag # "pending" =>
                           srch'[s].detailed[i] = srch[s].detailed[i]
       /\ \A t \in ToggleSlots :
             /\ (tog[t].pc = "free" /\ tog'[t].pc # "free") => nToggle' = nToggle + 1
             /\ (tog[t].pc # "free" /\ tog[t].outcome # "rolledBack"
                   /\ tog'[t].outcome = "rolledBack") => tog'[t].pc \in {"free", "drain"}
             /\ tog[t].pc \in {"delete", "drain"} =>
                   (tog'[t].pc \in {"delete", "drain", "free"}
                      /\ tog'[t].pending \subseteq tog[t].pending)
             /\ tog[t].pc = "insert" => tog'[t].pc \in {"insert", "free"}]_vars

\* a page request and an insert have failed and nothing is outstanding
W20_FailuresLeftNothingOutstanding ==
    /\ \E s \in SearchSlots :
          /\ srch[s].outcome = "error"
          /\ \E n \in 1 .. Len(srch[s].statuses) : PageFails(srch[s].statuses[n])
    /\ \E t \in ToggleSlots : tog[t].outcome = "rolledBack"
    /\ \A s \in SearchSlots : srch[s].pc = "free" /\ srch[s].pager = "off"
    /\ \A t \in ToggleSlots : tog[t].pc = "free"

\* the step in which search s ends after a search that was submitted
\* while the other was in flight has ended: a second slot is taken only
\* while the first is busy
EndsLastOfTwo(s, r) ==
    /\ s # r
    /\ SearchEnds(s)
    /\ srch[r] # IdleSearch
    /\ SlotFree(r)

\* the list the ending search s hands to setSearchResults, if it does
ListProducedBy(s) ==
    IF srch[s].pc = "store" /\ srch'[s].outcome = "success"
    THEN updatedBusinesses(srch[s].businesses, srch[s].q)
    ELSE <<>>

\* C21: when two searches have overlapped and both have ended, the search
\* state is the outcome of the one that ended later and the candidate
\* list is the list that one produced: its reconciled list, or no
\* candidates when it ended with zero results or in error.
C21_LaterCompletionWins ==
    [][\A s, r \in SearchSlots : EndsLastOfTwo(s, r) =>
          /\ searchState' = srch'[s].outcome
          /\ searchResults' = ListProducedBy(s)]_vars

\* C22: in part_002 the candidates on the list change only when a submit
\* empties the list and when a search publishes its own candidates: the
\* candidates an earlier search produced never come back, whenever the
\* toggles started before the new search settle.
C22_EarlierCandidatesNeverReturn ==
    [][impl = "part_002" =>
          (ApiIds(searchResults') # ApiIds(searchResults) =>
              \/ nSubmit' = nSubmit + 1 /\ searchResults' = <<>>
              \/ \E s \in SearchSlots : Publishes(s))]_vars

\* the step in which the script load of search s fails, or succeeds
\* without defining the global
SdkFails(s) ==
    \/ loadGoogleMapsSDK(s, "onerror")
    \/ loadGoogleMapsSDK(s, "blank") /\ google = "absent"

\* C23: when the load of the maps SDK fails, or the global is absent
\* after the load, the search ends in state error and has sent no request
\* to the places provider and none to the store.
C23_SdkFailureEndsInError ==
    [][\A s \in SearchSlots : SdkFails(s) =>
          /\ searchState' = "error"
          /\ srch'[s].pc = "free"
          /\ srch'[s].pager = "off"
          /\ srch'[s].outcome = "error"
          /\ srch'[s].statuses = <<>>
          /\ srch'[s].detailed = <<>>
          /\ UNCHANGED <<leads, nextDocId, searchResults>>]_vars

\* a search has ended in error with the global absent and no page
\* requested
W23_SdkFailed ==
    \E s \in SearchSlots :
        /\ google = "absent"
        /\ srch[s].outcome = "error"
        /\ srch[s].statuses = <<>>
        /\ srch[s].pc = "free"
        /\ searchState = "error"

\* ------------------------------------------------ toggles on one list
\* The session after a search for (cafe, NYC) was answered with one page
\* and has published its candidates, reconciled with the store; the user
\* clicks checkboxes and answers the confirmations.
PublishedList(c, q) ==
    updatedBusinesses(
        [i \in 1 .. Len(c) |->
            toBusiness(IF impl = "part_002" THEN DetailsOf(c[i]) ELSE SummaryOf(c[i]))],
        q)

ToggleInit ==
    /\ impl \in Impls
    /\ google = "present"
    /\ searchParams = [businessType |-> "cafe", location |-> "NYC"]
    /\ leads \in InitialStores
    /\ searchResults = PublishedList(<<"A", "B">>, searchParams)
    /\ searchState = "success"
    /\ currentPage = 1
    /\ nextDocId = 4
    /\ srch = [s \in SearchSlots |->
                 IF s = 1
                 THEN [IdleSearch EXCEPT !.q = searchParams, !.statuses = <<"OK">>,
                                         !.outcome = "success"]
                 ELSE IdleSearch]
    /\ tog = [t \in ToggleSlots |-> IdleToggle]
    /\ nSubmit = 1
    /\ nToggle = 0

ToggleNext ==
    \/ \E i \in 0 .. resultsPerPage - 1 : handleCheckboxChange(i)
    \/ \E t \in ToggleSlots, yes \in BOOLEAN : windowConfirm(t, yes)
    \/ \E t \in ToggleSlots, ok \in BOOLEAN : addDoc(t, ok)
    \/ \E t \in ToggleSlots, ok \in BOOLEAN : lookupLeads(t, ok)
    \/ \E t \in ToggleSlots, id \in 1 .. nextDocId, ok \in BOOLEAN : deleteDoc(t, id, ok)

ToggleSpec == ToggleInit /\ [][ToggleNext]_vars

\* records d and e are two records of one (identifier, category,
\* location) triple
SameTriple(d, e) ==
    /\ d.id # e.id
    /\ d.apiId = e.apiId
    /\ d.businessType = e.businessType
    /\ d.location = e.location

\* record d was written in this session: the records of earlier sessions
\* carry the time 0
WrittenHere(d) == d.timestamp > 0

\* C24: in part_002 the records a session writes never include two of
\* one (identifier, category, location) triple, whatever the session's
\* searches and toggles.
C24_OneRecordPerTriple ==
    impl = "part_002" =>
        \A d, e \in leads : (WrittenHere(d) /\ WrittenHere(e)) => ~SameTriple(d, e)

\* C25: in App.tsx, a search whose text search is answered with
\* ZERO_RESULTS ends in state success, not error, with an empty candidate
\* list.
C25_AppZeroResultsEndsInSuccess ==
    [][\A s \in SearchSlots :
          (impl = "App" /\ SearchEnds(s)
             /\ srch'[s].statuses = <<"ZERO_RESULTS">>)
          => (searchState' = "success" /\ searchResults' = <<>>)]_vars

\* C26: in App.tsx, when the insert of a confirmed toggle to contacted
\* fails, the candidate is listed at its row with the flag false again
\* and the user is told that the save failed.
C26_AppFailedInsertRevertsFlag ==
    [][\A t \in ToggleSlots : (impl = "App" /\ InsertFails(t)) =>
          /\ tog[t].isNowChecked
          /\ tog'[t].said = "Failed to save lead."
          /\ StillListed(searchResults', t) =>
                ~searchResults'[tog[t].globalIndex + 1].contacted]_vars

\* the step of the click that starts toggle t
Clicks(t) == nToggle' = nToggle + 1 /\ tog'[t] # tog[t]

\* C27: in App.tsx, a click that takes a contacted candidate to
\* not-contacted asks for confirmation, so that a yes can delete the
\* candidate's records.
C27_AppUncheckAsksAndDeletes ==
    [][\A t \in ToggleSlots :
          (impl = "App" /\ Clicks(t) /\ ~tog'[t].isNowChecked) =>
              tog'[t].pc = "confirm"]_vars

\* C28: a confirmed un-mark removes only records of the query that found
\* the candidate: every record that leaves the store carries the category
\* and location of a search of this session, and a record of the same
\* identifier under another category or location stays.
C28_UnmarkRemovesOnlyRecordsOfItsQuery ==
    [][\A d \in leads \ leads' :
          \E q \in AcceptedQueries :
              d.businessType = q.businessType /\ d.location = q.location]_vars

\* a toggle other than t is in flight on the 1-based row j
OtherInFlightOn(t, j) ==
    \E u \in ToggleSlots \ {t} : tog[u].pc # "free" /\ tog[u].globalIndex + 1 = j

\* candidates a and b differ in the contacted flag at most
SameButFlag(a, b) == [a EXCEPT !.contacted = FALSE] = [b EXCEPT !.contacted = FALSE]

\* C29: in part_002 every step of a toggle, whatever its outcome, leaves
\* the length and the order of the list, the fields other than the flag
\* of its own row and every row on which no other toggle is in flight as
\* they are: a rollback does not undo another row's confirmed toggle.
C29_ToggleTouchesOnlyItsFlag ==
    [][\A t \in ToggleSlots : (impl = "part_002" /\ tog'[t] # tog[t]) =>
          /\ Len(searchResults') = Len(searchResults)
          /\ \A j \in 1 .. Len(searchResults) :
                IF j = tog'[t].globalIndex + 1
                THEN SameButFlag(searchResults'[j], searchResults[j])
                ELSE ~OtherInFlightOn(t, j) => searchResults'[j] = searchResults[j]]_vars

\* the query of the search that produced the list on display: the
\* searches of part_002 never overlap and run in the first slot
ListQuery == srch[1].q

\* C30: in part_002, whenever the search state is success and no toggle
\* is in flight, a listed candidate is flagged contacted exactly when the
\* store holds a record with its identifier and with the category and
\* location of the search that produced the list; stated for the toggles
\* that were started on rows of their own.
C30_FlagsMatchStoreAtRest ==
    (impl = "part_002" /\ searchState = "success"
       /\ \A t \in ToggleSlots :
             tog[t].pc = "free" /\ (tog[t] = IdleToggle \/ AloneOnRow(t))) =>
        \A i \in 1 .. Len(searchResults) :
            searchResults[i].contacted <=>
                \E d \in leads :
                    /\ d.apiId = searchResults[i].apiId
                    /\ d.businessType = ListQuery.businessType
                    /\ d.location = ListQuery.location

\* ------------------------------------------------- long lists arrive
\* Sessions whose searches were answered with long lists.  Every search
\* that was accepted has fetched its candidates and waits for the store
\* to answer its getDocs; nothing is listed yet.  part_002 has one such
\* search (its button is disabled while loading), App.tsx has two, the
\* second submitted while the first was running.  The store holds the
\* record an earlier session wrote for the first candidate.  The user
\* turns the pages and clicks a checkbox once the table is shown.
LongLens == {5, 21, 45}
MaxLongToggles == 1

LeadOfCandidate(id, i) ==
    [id |-> id, apiId |-> Candidate(i).apiId, name |-> Candidate(i).name,
     phone |-> Candidate(i).phone, address |-> Candidate(i).address,
     website |-> Candidate(i).website, contacted |-> TRUE,
     businessType |-> "cafe", location |-> "NYC", timestamp |-> 0]

AwaitsStore(n, q) ==
    [IdleSearch EXCEPT !.pc = "store", !.q = q, !.statuses = <<"OK">>,
                       !.businesses = [i \in 1 .. n |-> Candidate(i)]]

LongInit ==
    /\ impl \in Impls
    /\ google = "present"
    /\ searchParams = [businessType |-> "cafe", location |-> "NYC"]
    /\ searchResults = <<>>
    /\ searchState = "loading"
    /\ currentPage = 1
    /\ leads = {LeadOfCandidate(1, 1)}
    /\ nextDocId = 4
    /\ \E n1 \in LongLens, n2 \in LongLens :
          srch = [s \in SearchSlots |->
                    IF s = 1 THEN AwaitsStore(n1, searchParams)
                    ELSE IF s = 2 /\ impl = "App" THEN AwaitsStore(n2, searchParams)
                    ELSE IdleSearch]
    /\ tog = [t \in ToggleSlots |-> IdleToggle]
    /\ nSubmit = IF impl = "App" THEN 2 ELSE 1
    /\ nToggle = 0

LongNext ==
    \/ \E s \in SearchSlots, ok \in BOOLEAN : getDocs(s, ok)
    \/ Previous
    \/ NextButton
    \/ nToggle < MaxLongToggles /\ \E i \in 0 .. resultsPerPage - 1 : handleCheckboxChange(i)
    \/ \E t \in ToggleSlots, yes \in BOOLEAN : windowConfirm(t, yes)
    \/ \E t \in ToggleSlots, ok \in BOOLEAN : addDoc(t, ok)
    \/ \E t \in ToggleSlots, ok \in BOOLEAN : lookupLeads(t, ok)
    \/ \E t \in ToggleSlots, id \in 1 .. nextDocId, ok \in BOOLEAN : deleteDoc(t, id, ok)

LongSpec == LongInit /\ [][LongNext]_vars

\* C31: the current page number stays inside the pagination window: in
\* every reachable state 1 <= currentPage <= max(1, ceil(n / 20)) for the
\* n candidates listed.
C31_PageInsideWindow ==
    /\ 1 <= currentPage
    /\ currentPage <= Max(1, totalPages)

\* ------------------------------------------- one search at a time
InFlight == {s \in SearchSlots : ~SlotFree(s)}

\* C33: in part_002 at most one search is in flight at any time: a search
\* is in flight exactly while the state is "loading", the state in which
\* the Search button is disabled, so that no second search is started
\* before the first has ended in "success" or "error".
C33_OneSearchInFlight ==
    impl = "part_002" =>
        /\ Cardinality(InFlight) <= 1
        /\ InFlight # {} <=> searchState = "loading"

\* a search of part_002 is in flight after the second submit, while the
\* form holds a query that a further submit would have accepted
W33_LoadingWithQueryInForm ==
    /\ impl = "part_002"
    /\ InFlight = {1}
    /\ searchState = "loading"
    /\ nSubmit = 2
    /\ ~RejectsQuery(searchParams)

\* the step in which the store rejects the getDocs of search s
StoreQueryFails(s) ==
    srch[s].pc = "store" /\ srch'[s].pc = "free" /\ srch'[s].outcome = "error"

\* C34: in part_002, when the store query that fetches the records for
\* reconciliation fails, the search ends in state error and the candidate
\* list is empty: the unreconciled list is not published.
C34_FailedStoreQueryEndsInEmptyError ==
    [][\A s \in SearchSlots :
          (impl = "part_002" /\ StoreQueryFails(s))
          => (searchState' = "error" /\ searchResults' = <<>>)]_vars

\* C35: toggling the checkbox of row i (0-based) on page p acts on the
\* candidate at global position (p-1)*20 + i of the full list, which is
\* the candidate displayed in that row: the handler flips the flag of
\* that candidate and of no other, and it is that candidate it asks
\* about and remembers.
C35_ToggleActsOnDisplayedRow ==
    [][\A i \in 0 .. resultsPerPage - 1 :
          handleCheckboxChange(i) =>
             LET g == (currentPage - 1) * 20 + i
             IN  /\ g < Len(searchResults)
                 /\ i < Len(currentResults)
                 /\ currentResults[i + 1] = searchResults[g + 1]
                 /\ rowNumber(i) = g + 1
                 /\ searchResults' =
                       [searchResults EXCEPT ![g + 1].contacted = ~@]
                 /\ tog'[FreeToggleSlot].globalIndex = g
                 /\ tog'[FreeToggleSlot].pc = "confirm" =>
                       tog'[FreeToggleSlot].targetBusiness = currentResults[i + 1]]_vars

\* the last row of page 3 of 45 candidates was clicked: candidate 45 is
\* flagged and the confirmation about it is open
W35_LastRowOfThirdPageClicked ==
    /\ Len(searchResults) = 45
    /\ currentPage = 3
    /\ \E t \in ToggleSlots :
          /\ tog[t].pc = "confirm"
          /\ tog[t].globalIndex = 44
          /\ tog[t].targetBusiness = Candidate(45)
    /\ searchResults[45].contacted

\* ------------------------------------------------ searches that end
\* The session from the moment the form holds the query (cafe, NYC).
\* The user submits, clicks a checkbox and answers the confirmation when
\* they please; the script loader, the provider, the browser's timer and
\* the store answer every request of a search sooner or later.
MaxLiveToggles == 1

LiveInit ==
    /\ impl \in Impls
    /\ google = "absent"
    /\ searchParams = [businessType |-> "cafe", location |-> "NYC"]
    /\ searchResults = <<>>
    /\ searchState = "idle"
    /\ currentPage = 1
    /\ leads \in InitialStores
    /\ nextDocId = 4
    /\ srch = [s \in SearchSlots |-> IdleSearch]
    /\ tog = [t \in ToggleSlots |-> IdleToggle]
    /\ nSubmit = 0
    /\ nToggle = 0

\* an answer to what search s is waiting for: the script load, a page
\* of the text search, the 2000 ms timer, a detail lookup, the store
Answers(s) ==
    \/ \E how \in {"defines", "blank", "onerror"} : loadGoogleMapsSDK(s, how)
    \/ \E ans \in PageAnswers(s) : callback(s, ans)
    \/ \E ans \in PageAnswers(s) : fetchPage(s, ans)
    \/ tick(s)
    \/ nextPage(s)
    \/ \E i \in 1 .. Len(srch[s].detailed) :
          \E status \in {"OK", "NOT_FOUND"} : getDetails(s, i, status)
    \/ \E ok \in BOOLEAN : getDocs(s, ok)

LiveNext ==
    \/ EventsLeft /\ handleSearch
    \/ \E s \in SearchSlots : Answers(s)
    \/ \E s \in SearchSlots : checkNext(s)
    \/ nToggle < MaxLiveToggles /\ EventsLeft
          /\ \E i \in 0 .. resultsPerPage - 1 : handleCheckboxChange(i)
    \/ \E t \in ToggleSlots, yes \in BOOLEAN : windowConfirm(t, yes)
    \/ \E t \in ToggleSlots, ok \in BOOLEAN : addDoc(t, ok)
    \/ \E t \in ToggleSlots, ok \in BOOLEAN : lookupLeads(t, ok)
    \/ \E t \in ToggleSlots, id \in 1 .. nextDocId, ok \in BOOLEAN : deleteDoc(t, id, ok)

LiveSpec ==
    LiveInit /\ [][LiveNext]_vars /\ \A s \in SearchSlots : WF_vars(Answers(s))

====
